---------------------------- MODULE Spec2Model ----------------------------
(***************************************************************************)
(* A model of markup_tool.py: the Tk front end (view selector, markup file *)
(* picker, "generate" button), build_map (record filter, company colour    *)
(* table, marker classification, job hulls, overlay import) and the page   *)
(* script it emits (toggleMarkups, promptEdit, draw:created).              *)
(*                                                                         *)
(* Text is modelled as a sequence of one-character strings, so that the    *)
(* string operations of the source (lower, strip, regular expressions,     *)
(* sorting) are computed, not assumed.  A missing spreadsheet cell (NaN)   *)
(* is the value NA.                                                        *)
(***************************************************************************)
EXTENDS Integers, Sequences, FiniteSets, TLC

VARIABLES
    pc,            \* "gui": the Tk window is up; "page": a map was generated and is open
    view_var,      \* the view radio button
    markup_file,   \* the module global markup_file: what the chosen path holds
    sheet,         \* the rows of the spreadsheet the user will pick
    scene,         \* what build_map put on the map
    messages,      \* what the last click on "generate" showed: message box titles, or
                   \* "Traceback" when an exception left the callback
    layers,        \* page script: the layers known to the page, by id
    group,         \* page script: ids of the layers of the Markups feature group
    onMap,         \* page script: ids of the layers displayed on the map
    markupsHidden, \* page script: var markupsHidden
    points,        \* argument of a direct call of convex_hull
    hull           \* result of that call

vars == <<pc, view_var, markup_file, sheet, scene, messages,
          layers, group, onMap, markupsHidden, points, hull>>

-----------------------------------------------------------------------------
(* Generic sequence helpers *)

Range(s) == {s[i] : i \in 1..Len(s)}

RECURSIVE SelectIdx(_, _, _)
\* the subsequence of s at the indices in keep, in order, from index i on
SelectIdx(s, keep, i) ==
    IF i > Len(s) THEN <<>>
    ELSE IF i \in keep THEN <<s[i]>> \o SelectIdx(s, keep, i + 1)
    ELSE SelectIdx(s, keep, i + 1)

Reverse(s) == [i \in 1..Len(s) |-> s[Len(s) + 1 - i]]

-----------------------------------------------------------------------------
(* Text: Python str as a sequence of one-character strings *)

\* printable ASCII from code 32 to code 126, in code order (the grave accent, code 96,
\* is left out: its place is held by the empty string)
Ascii ==
    <<" ", "!", "\"", "#", "$", "%", "&", "'", "(", ")", "*", "+", ",", "-", ".", "/",
      "0", "1", "2", "3", "4", "5", "6", "7", "8", "9", ":", ";", "<", "=", ">", "?",
      "@", "A", "B", "C", "D", "E", "F", "G", "H", "I", "J", "K", "L", "M", "N", "O",
      "P", "Q", "R", "S", "T", "U", "V", "W", "X", "Y", "Z", "[", "\\", "]", "^", "_",
      "",  "a", "b", "c", "d", "e", "f", "g", "h", "i", "j", "k", "l", "m", "n", "o",
      "p", "q", "r", "s", "t", "u", "v", "w", "x", "y", "z", "{", "|", "}", "~">>

\* the characters of the model: printable ASCII, tab and newline
Chars == (Range(Ascii) \ {""}) \cup {"\t", "\n"}

\* ord(c)
Code ==
    [c \in Chars |->
        IF c = "\t" THEN 9
        ELSE IF c = "\n" THEN 10
        ELSE 31 + (CHOOSE i \in 1..Len(Ascii) : Ascii[i] = c)]
Ord(c) == Code[c]

UpperChars == {c \in Chars : Code[c] >= 65 /\ Code[c] <= 90}
AlphaChars == UpperChars \cup {c \in Chars : Code[c] >= 97 /\ Code[c] <= 122}
DigitChars == {c \in Chars : Code[c] >= 48 /\ Code[c] <= 57}
WordChars  == AlphaChars \cup DigitChars \cup {"_"}

IsUpper(c) == c \in UpperChars
IsAlpha(c) == c \in AlphaChars
IsDigit(c) == c \in DigitChars
\* \s of the re module, str.strip() and str.isspace()
IsSpace(c) == c \in {" ", "\t", "\n"}
\* \w of the re module
IsWord(c)  == c \in WordChars

LowerTable == [c \in Chars |-> IF c \in UpperChars THEN Ascii[Code[c] + 32 - 31] ELSE c]
LowerChar(c) == LowerTable[c]
\* str.lower()
Lower(s) == [i \in 1..Len(s) |-> LowerChar(s[i])]

\* str.strip()
Strip(s) ==
    LET keep == {i \in 1..Len(s) : ~IsSpace(s[i])} IN
    IF keep = {} THEN <<>>
    ELSE LET a == CHOOSE i \in keep : \A j \in keep : i <= j
             b == CHOOSE i \in keep : \A j \in keep : j <= i
         IN  SubSeq(s, a, b)

\* s[i:i+len(w)] == w
MatchAt(s, i, w) ==
    /\ i >= 1
    /\ i + Len(w) - 1 <= Len(s)
    /\ SubSeq(s, i, i + Len(w) - 1) = w

\* \b at both ends of the span i..j of s (the span starts and ends with word characters)
Bounded(s, i, j) ==
    /\ (i = 1 \/ ~IsWord(s[i - 1]))
    /\ (j = Len(s) \/ ~IsWord(s[j + 1]))

\* Python's order on str: by code point, a proper prefix first
RECURSIVE StrLess(_, _)
StrLess(a, b) ==
    IF b = <<>> THEN FALSE
    ELSE IF a = <<>> THEN TRUE
    ELSE IF a[1] # b[1] THEN Ord(a[1]) < Ord(b[1])
    ELSE StrLess(Tail(a), Tail(b))

RECURSIVE SortedStrs(_)
\* sorted(S) for a set of str
SortedStrs(S) ==
    IF S = {} THEN <<>>
    ELSE LET m == CHOOSE a \in S : \A b \in S : b = a \/ StrLess(a, b)
         IN  <<m>> \o SortedStrs(S \ {m})

\* a missing cell (NaN / None) of the data frame
NA == <<"<NaN>">>
\* pd.notna(v)
notna(v) == v # NA
\* str(v), astype(str)
Str(v) == IF v = NA THEN <<"n", "a", "n">> ELSE v

-----------------------------------------------------------------------------
(* CONFIG, lines 13-28 *)

CIRCLE_RADIUS_PIXELS == 6

\* an insertion-ordered dict: a sequence of <<key, value>> pairs with distinct keys
Keys(d) == {d[i][1] : i \in 1..Len(d)}
\* dict.get(k, default)
Get(d, k, default) ==
    IF k \in Keys(d) THEN d[CHOOSE i \in 1..Len(d) : d[i][1] = k][2] ELSE default

STYLE_COLORS ==
    << <<<<"N", "o", " ", "M", "R">>, "green">>,
       <<<<"C", "o", "m", "m", " ", "M", "R">>, "yellow">>,
       <<<<"S", "i", "m", "p", "l", "e", " ", "P", "o", "w", "e", "r", " ", "M", "R">>, "orange">>,
       <<<<"C", "o", "m", "p", "l", "e", "x", " ", "P", "o", "w", "e", "r", " ", "M", "R">>, "red">>,
       <<<<"D", "e", "f", "e", "r", "r", "e", "d">>, "gray">>,
       <<<<"C", "a", "n", "n", "o", "t", " ", "A", "t", "t", "a", "c", "h">>, "black">> >>
MISSING_COLOR == "purple"
WARNING_COLOR == "aqua"

PALETTE == <<"blue", "darkblue", "teal", "navy", "magenta", "lime">>
MULTI_COMP_COLOR == "red"
MARKUP_COLORS == <<"red", "orange", "yellow", "green", "blue", "purple", "aqua", "lime", "black">>

-----------------------------------------------------------------------------
(* convex_hull, lines 33-48 *)

\* tuple order of Python on (x, y) pairs
PtLess(a, b) == a[1] < b[1] \/ (a[1] = b[1] /\ a[2] < b[2])

RECURSIVE SortedPts(_)
\* sorted(S) for a set of points
SortedPts(S) ==
    IF S = {} THEN <<>>
    ELSE LET m == CHOOSE p \in S : \A q \in S : q = p \/ PtLess(p, q)
         IN  <<m>> \o SortedPts(S \ {m})

cross(o, a, b) == (a[1] - o[1]) * (b[2] - o[2]) - (a[2] - o[2]) * (b[1] - o[1])

RECURSIVE PopWhile(_, _)
\* while len(chain)>=2 and cross(chain[-2],chain[-1],p)<=0: chain.pop()
PopWhile(chain, p) ==
    IF Len(chain) >= 2 /\ cross(chain[Len(chain) - 1], chain[Len(chain)], p) <= 0
    THEN PopWhile(SubSeq(chain, 1, Len(chain) - 1), p)
    ELSE chain

RECURSIVE Chain(_, _, _)
\* one "for p in ...: while ...: pop; append(p)" loop, from index i on
Chain(ps, i, chain) ==
    IF i > Len(ps) THEN chain
    ELSE Chain(ps, i + 1, Append(PopWhile(chain, ps[i]), ps[i]))

\* the variant of convex_hull that keeps the caller's order (no sorted(set(...)))
RECURSIVE DedupInOrder(_)
DedupInOrder(s) ==
    IF s = <<>> THEN <<>>
    ELSE LET r == DedupInOrder(SubSeq(s, 1, Len(s) - 1))
         IN  IF s[Len(s)] \in Range(r) THEN r ELSE Append(r, s[Len(s)])

convex_hull_unsorted(pointsArg) ==
    LET pts == DedupInOrder(pointsArg) IN
    IF Len(pts) < 3 THEN pts
    ELSE LET lower == Chain(pts, 1, <<>>)
             upper == Chain(Reverse(pts), 1, <<>>)
         IN  SubSeq(lower, 1, Len(lower) - 1) \o SubSeq(upper, 1, Len(upper) - 1)

convex_hull(pointsArg) ==
    LET pts == SortedPts(Range(pointsArg)) IN
    IF Len(pts) < 3 THEN pts
    ELSE LET lower == Chain(pts, 1, <<>>)
             upper == Chain(Reverse(pts), 1, <<>>)
         IN  SubSeq(lower, 1, Len(lower) - 1) \o SubSeq(upper, 1, Len(upper) - 1)

-----------------------------------------------------------------------------
(* The data frame.  A row is a record                                       *)
(*   job_name, node_type, scid : text or NA                                 *)
(*   latitude, longitude       : integers; missing names the coordinate    *)
(*                               columns whose cell is NaN                  *)
(*   level, cost, warning, company : one cell (text or NA) per column of    *)
(*                               level_cols, cost_cols, warning_cols and    *)
(*                               company_cols, in column order              *)

\* the literals of the regular expressions and comparisons of build_map
W_copy    == <<"c", "o", "p", "y">>
W_pole    == <<"p", "o", "l", "e">>
W_pla     == <<"p", "l", "a">>
W_att     == <<"a", "t", "&", "t">>
W_charter == <<"c", "h", "a", "r", "t", "e", "r">>
W_nan     == <<"n", "a", "n">>

\* re.search(w, s, IGNORECASE) for a literal w given in lower case
ContainsNoCase(s, w) == LET ls == Lower(s) IN \E i \in 1..Len(s) : MatchAt(ls, i, w)

\* re.search(r'\bw\b', s, IGNORECASE) for a literal w, in lower case, that starts and
\* ends with a word character: the positions where such a match starts
TokenStarts(s, w) ==
    LET ls == Lower(s)
    IN  {i \in 1..Len(s) : MatchAt(ls, i, w) /\ Bounded(s, i, i + Len(w) - 1)}

ContainsToken(s, w) == TokenStarts(s, w) # {}

\* Series.str.contains(r'\bPLA\b', case=False, regex=True, na=False)
IsPla(job_name) == notna(job_name) /\ ContainsToken(job_name, W_pla)

\* Series.str.replace(r'\s*\bPLA\b', '', case=False, regex=True): every PLA token goes,
\* together with the whitespace run that ends where the token starts; NaN stays NaN
base_job(job_name) ==
    IF job_name = NA THEN NA
    ELSE LET starts == TokenStarts(job_name, W_pla)
             gone == {j \in 1..Len(job_name) :
                        \E i \in starts :
                            \/ (i <= j /\ j <= i + 2)
                            \/ (j < i /\ \A k \in j..(i - 1) : IsSpace(job_name[k]))}
         IN  SelectIdx(job_name, (1..Len(job_name)) \ gone, 1)

\* df[keep]: the rows of df at the positions where keep(row) holds, in order
Rows(df, keep(_)) == SelectIdx(df, {i \in 1..Len(df) : keep(df[i])}, 1)

\* line 53
NotCopy(r) == ~(notna(r.job_name) /\ ContainsNoCase(r.job_name, W_copy))
\* line 54
IsPole(r) == Lower(Str(r.node_type)) = W_pole
\* line 55
HasCoords(r) == r.missing = {}
\* line 56: re.match(r'^\d+$', str(scid)); $ also matches before one final newline
ScidOk(r) ==
    LET v == Str(r.scid)
        d == IF Len(v) > 0 /\ v[Len(v)] = "\n" THEN SubSeq(v, 1, Len(v) - 1) ELSE v
    IN  Len(d) > 0 /\ \A i \in 1..Len(d) : IsDigit(d[i])

\* lines 58-66, the PLA step; the variant keeps a PLA row only beside a non-PLA row
\* of its base job
PlaStepPaired(df, view_mode) ==
    IF view_mode = "Utility"
    THEN LET has_pla == {base_job(df[i].job_name) : i \in {j \in 1..Len(df) : IsPla(df[j].job_name)}}
             plain   == {base_job(df[i].job_name) : i \in {j \in 1..Len(df) : ~IsPla(df[j].job_name)}}
             mask_pla(r)    == notna(r.job_name) /\ base_job(r.job_name) \in has_pla
             mask_is_pla(r) == IsPla(r.job_name)
             keep(r) == (mask_pla(r) /\ mask_is_pla(r) /\ base_job(r.job_name) \in plain)
                        \/ ~mask_pla(r)
         IN  Rows(df, keep)
    ELSE LET keep(r) == ~IsPla(r.job_name) IN Rows(df, keep)

\* the variant takes has_pla from the job_name column instead of base_job
PlaStepWrongColumn(df, view_mode) ==
    IF view_mode = "Utility"
    THEN LET has_pla == {df[i].job_name : i \in {j \in 1..Len(df) : IsPla(df[j].job_name)}}
             mask_pla(r)    == notna(r.job_name) /\ base_job(r.job_name) \in has_pla
             mask_is_pla(r) == IsPla(r.job_name)
             keep(r) == (mask_pla(r) /\ mask_is_pla(r)) \/ ~mask_pla(r)
         IN  Rows(df, keep)
    ELSE LET keep(r) == ~IsPla(r.job_name) IN Rows(df, keep)

PlaStep(df, view_mode) ==
    IF view_mode = "Utility"
    THEN LET has_pla == {base_job(df[i].job_name) : i \in {j \in 1..Len(df) : IsPla(df[j].job_name)}}
             mask_pla(r)    == notna(r.job_name) /\ base_job(r.job_name) \in has_pla
             mask_is_pla(r) == IsPla(r.job_name)
             keep(r) == (mask_pla(r) /\ mask_is_pla(r)) \/ ~mask_pla(r)
         IN  Rows(df, keep)
    ELSE LET keep(r) == ~IsPla(r.job_name) IN Rows(df, keep)

\* line 70: any(re.search(r'\bAT&T\b|\bCharter\b', cell, IGNORECASE) for cell in row),
\* on the company cells after fillna('').astype(str)
Excluded(r) ==
    \E c \in 1..Len(r.company) :
        LET cell == IF r.company[c] = NA THEN <<>> ELSE r.company[c]
        IN  ContainsToken(cell, W_att) \/ ContainsToken(cell, W_charter)

\* lines 68-74
Exclusion(df, view_mode) ==
    IF view_mode = "Utility"
    THEN LET keep(r) == ~Excluded(r) IN Rows(df, keep)
    ELSE df

\* lines 53-74: the value of df after each filtering statement
FilterTrace(df, view_mode) ==
    LET d1 == Rows(df, NotCopy)
        d2 == Rows(d1, IsPole)
        d3 == Rows(d2, HasCoords)
        d4 == Rows(d3, ScidOk)
        d5 == PlaStep(d4, view_mode)
        d6 == Exclusion(d5, view_mode)
    IN  [copy |-> d1, node_type |-> d2, coords |-> d3, scid |-> d4, pla |-> d5, excl |-> d6]

\* lines 53-74: the rows build_map goes on with
Filter(df, view_mode) == FilterTrace(df, view_mode).excl

-----------------------------------------------------------------------------
(* build_map, lines 84-175: company colours and markers *)

MagicValley == <<"M", "a", "g", "i", "c", " ", "V", "a", "l", "l", "e", "y", " ", "E", "l", "e", "c", "t", "r", "i", "c", " ", "C", "o", "o", "p">>

\* lines 85-89
canon(v0) ==
    LET v == Strip(v0) IN
    IF Lower(v) \in {<<"m", "a", "g", "i", "c", " ", "v", "a", "l", "l", "e", "y", " ", "e", "l", "e", "c", " ", "c", "o", "o", "p">>,
                     <<"m", "a", "g", "i", "c", " ", "v", "a", "l", "l", "e", "y", " ", "e", "l", "e", "c", "t", "r", "i", "c", " ", "c", "o", "o", "p">>}
    THEN MagicValley
    ELSE v

RECURSIVE Flatten(_)
\* the concatenation of a sequence of sequences
Flatten(ss) == IF ss = <<>> THEN <<>> ELSE Head(ss) \o Flatten(Tail(ss))

\* lines 92-95, one row: the canonical names of its company cells that are neither
\* blank nor the text nan
RowComps(r) ==
    LET v(c) == Strip(Str(r.company[c]))
        keep == {c \in 1..Len(r.company) : v(c) # <<>> /\ Lower(v(c)) # W_nan}
    IN  [i \in 1..Len(SelectIdx(r.company, keep, 1)) |->
            canon(Strip(Str(SelectIdx(r.company, keep, 1)[i])))]

\* lines 90-95
comps(df) == Flatten([i \in 1..Len(df) |-> RowComps(df[i])])

\* the names in the order they are first met (what line 96 does not do)
uniq_first_seen(cs) == DedupInOrder(cs)

\* line 96
uniq(cs) == SortedStrs(Range(cs))

\* lines 97-102
KnownCompanyColors ==
    << <<MagicValley, "#98ff98">>,
       <<<<"A", "E", "P">>, "orange">>,
       <<<<"B", "r", "o", "w", "n", "s", "v", "i", "l", "l", "e", " ", "P", "u", "b", "l", "i", "c", " ", "U", "t", "i", "l", "i", "t", "i", "e", "s">>, "aqua">>,
       <<<<"C", "e", "n", "t", "r", "a", "l", " ", "B", "r", "a", "d", "f", "o", "r", "d", " ", "P", "A">>, "yellow">> >>

RECURSIVE AssignColors(_, _, _, _)
\* lines 104-107, from position i of the name list on
AssignColors(names, i, table, idx) ==
    IF i > Len(names) THEN table
    ELSE IF names[i] \notin Keys(table)
         THEN AssignColors(names, i + 1,
                           Append(table, <<names[i], PALETTE[(idx % Len(PALETTE)) + 1]>>),
                           idx + 1)
         ELSE AssignColors(names, i + 1, table, idx)

\* lines 90-107
comp_color(df) == AssignColors(uniq(comps(df)), 1, KnownCompanyColors, 0)

\* a cell that is neither NaN nor blank (pd.notna(v) and str(v).strip())
Filled(v) == notna(v) /\ Strip(Str(v)) # <<>>

\* [str(row[c]) for c in cols if pd.notna(row.get(c)) and str(row.get(c)).strip()]
FilledCells(cells) ==
    LET kept == SelectIdx(cells, {c \in 1..Len(cells) : Filled(cells[c])}, 1)
    IN  [i \in 1..Len(kept) |-> Str(kept[i])]

\* the variant that lets the last filled column win
last_val(cells) ==
    IF \E c \in 1..Len(cells) : Filled(cells[c])
    THEN Str(cells[CHOOSE c \in 1..Len(cells) :
                      Filled(cells[c]) /\ \A b \in (c + 1)..Len(cells) : ~Filled(cells[b])])
    ELSE <<>>

\* lines 109-114
first_val(cells) ==
    IF \E c \in 1..Len(cells) : Filled(cells[c])
    THEN Str(cells[CHOOSE c \in 1..Len(cells) :
                      Filled(cells[c]) /\ \A b \in 1..(c - 1) : ~Filled(cells[b])])
    ELSE <<>>

NoPopup == <<"<None>">>

\* lines 116-175, one row
Marker(row, view_mode, colors) ==
    LET warnings  == FilledCells(row.warning)
        raw_comps == FilledCells(row.company)
        companies == IF view_mode = "MR"
                     THEN (IF raw_comps # <<>> THEN <<raw_comps[1]>> ELSE <<>>)
                     ELSE [i \in 1..Len(raw_comps) |-> canon(raw_comps[i])]
        loc == <<row.latitude, row.longitude>>
    IN
    IF view_mode = "MR"
    THEN LET lvl  == first_val(row.level)
             cost == first_val(row.cost)
         IN  IF warnings # <<>>
             THEN [kind |-> "RegularPolygonMarker", color |-> WARNING_COLOR,
                   location |-> loc, popup |-> row.job_name,
                   tooltip |-> [scid |-> row.scid, lvl |-> lvl, cost |-> cost,
                                warnings |-> warnings]]
             ELSE [kind |-> "CircleMarker", color |-> Get(STYLE_COLORS, lvl, MISSING_COLOR),
                   location |-> loc, popup |-> row.job_name,
                   tooltip |-> [scid |-> row.scid, lvl |-> lvl, cost |-> cost,
                                warnings |-> <<>>]]
    ELSE LET tip == [scid |-> row.scid, companies |-> companies] IN
         IF Len(companies) > 1
         THEN [kind |-> "RegularPolygonMarker", color |-> MULTI_COMP_COLOR,
               location |-> loc, popup |-> NoPopup, tooltip |-> tip]
         ELSE IF Len(companies) = 1
         THEN [kind |-> "CircleMarker", color |-> Get(colors, companies[1], PALETTE[1]),
               location |-> loc, popup |-> NoPopup, tooltip |-> tip]
         ELSE [kind |-> "DivIcon", color |-> "red",
               location |-> loc, popup |-> NoPopup, tooltip |-> tip]

-----------------------------------------------------------------------------
(* build_map, lines 177-197: job hulls *)

\* the keys of df.groupby('job_name'): sorted, NaN left out
JobNames(df) == SortedStrs({df[i].job_name : i \in {j \in 1..Len(df) : notna(df[j].job_name)}})

\* line 179
JobPts(df, job) ==
    LET grp == SelectIdx(df, {i \in 1..Len(df) : df[i].job_name = job}, 1)
    IN  [i \in 1..Len(grp) |-> <<grp[i].longitude, grp[i].latitude>>]

\* line 180: if len(pts) < 3: continue
SkipJob(pts) == Len(pts) < 3

\* lines 182-197; opacity in hundredths
HullFeature(job, pts) ==
    LET h == convex_hull(pts) IN
    [label |-> job, color |-> "black", labelSize |-> 10, isJobLabel |-> TRUE,
     opacity |-> 95, coordinates |-> Append(h, h[1])]

\* lines 177-197
hull_features(df) ==
    LET jobs == JobNames(df)
        made == SelectIdx(jobs, {i \in 1..Len(jobs) : ~SkipJob(JobPts(df, jobs[i]))}, 1)
    IN  [i \in 1..Len(made) |-> HullFeature(made[i], JobPts(df, made[i]))]

-----------------------------------------------------------------------------
(* build_map, lines 245-271: the optional markup file.  markup_path is a    *)
(* record: path is "None" (never chosen), "" (dialog cancelled) or "file";  *)
(* content says what reading the file gives: "ok" (a feature collection),   *)
(* "unreadable" (open fails), "malformed" (json.load fails) or "invalid"    *)
(* (folium.GeoJson rejects the data); features are the property objects of  *)
(* the features of a readable file.                                         *)

NoFile == [path |-> "None", content |-> "ok", features |-> <<>>]

\* the variant without the try/except: the exception leaves build_map
ImportMarkupUncaught(markup_path) ==
    IF markup_path.path \in {"None", ""}
    THEN [features |-> <<>>, warned |-> FALSE, raised |-> FALSE]
    ELSE IF markup_path.content # "ok"
    THEN [features |-> <<>>, warned |-> FALSE, raised |-> TRUE]
    ELSE [features |-> markup_path.features, warned |-> FALSE, raised |-> FALSE]

\* lines 245-271: the imported features, whether the Markup Error box was shown,
\* whether an exception left the block
ImportMarkup(markup_path) ==
    IF markup_path.path \in {"None", ""}
    THEN [features |-> <<>>, warned |-> FALSE, raised |-> FALSE]
    ELSE IF markup_path.content # "ok"
    THEN [features |-> <<>>, warned |-> TRUE, raised |-> FALSE]
    ELSE [features |-> markup_path.features, warned |-> FALSE, raised |-> FALSE]

\* lines 224-239
Legend(view_mode, colors) ==
    IF view_mode = "MR"
    THEN [i \in 1..Len(STYLE_COLORS) |-> <<STYLE_COLORS[i][1], STYLE_COLORS[i][2]>>]
         \o << <<<<"M", "i", "s", "s", "i", "n", "g", " ", "M", "R">>, MISSING_COLOR>>,
               <<<<"W", "a", "r", "n", "i", "n", "g", "s">>, WARNING_COLOR>> >>
    ELSE colors
         \o << <<<<"M", "u", "l", "t", "i", "p", "l", "e", " ", "C", "o", "m", "p", "a", "n", "i", "e", "s">>, "red">>,
               <<<<"N", "o", " ", "C", "o", "m", "p", "a", "n", "y">>, "red">> >>

NoScene == [returned |-> FALSE, trace |-> <<>>, rows |-> <<>>, comp_color |-> <<>>,
            markers |-> <<>>, hull_features |-> <<>>, overlay |-> <<>>,
            warned |-> FALSE, legend |-> <<>>]

\* lines 50-422: what build_map puts on the map.  The map object itself (centre,
\* bounds, tiles) and the saved file are outside the model.
build_map(df0, view_mode, markup_path) ==
    LET trace  == FilterTrace(df0, view_mode)
        df     == trace.excl
        colors == IF view_mode = "Utility" THEN comp_color(df) ELSE <<>>
        imp    == ImportMarkup(markup_path)
    IN  IF imp.raised THEN NoScene
        ELSE [returned |-> TRUE,
              trace |-> trace,
              rows |-> df,
              comp_color |-> colors,
              markers |-> [i \in 1..Len(df) |-> Marker(df[i], view_mode, colors)],
              hull_features |-> hull_features(df),
              overlay |-> imp.features,
              warned |-> imp.warned,
              legend |-> Legend(view_mode, colors)]

-----------------------------------------------------------------------------
(* The page script, lines 274-410.  A layer is a record                     *)
(*   props    : layer.feature.properties, a function from the property      *)
(*              names present to their values ({} also when the layer has   *)
(*              no feature); opacities are in hundredths, labels are text,  *)
(*              colours are plain strings                                   *)
(*   options  : layer.options.color and layer.options.opacity where set     *)
(*   setStyle : whether the layer has a setStyle method (a path, not a      *)
(*              marker)                                                     *)
(*   style    : what setStyle was last given, <<>> if never called          *)
(*   tooltip  : the bound tooltip, <<>> if none                             *)

Has(f, k) == k \in DOMAIN f

\* f with f[k] set to v
Put(f, k, v) == [x \in (DOMAIN f) \cup {k} |-> IF x = k THEN v ELSE f[x]]

\* props.isJobLabel as a condition
IsJobLabel(props) == Has(props, "isJobLabel") /\ props["isJobLabel"] = TRUE

\* p.color || layer.options.color || 'blue'
ColorOf(layer) ==
    IF Has(layer.props, "color") /\ layer.props["color"] # "" THEN layer.props["color"]
    ELSE IF Has(layer.options, "color") /\ layer.options["color"] # "" THEN layer.options["color"]
    ELSE "blue"

\* p.opacity != null ? p.opacity : (layer.options.opacity != null ? layer.options.opacity : 0.95)
OpacityOf(layer) ==
    IF Has(layer.props, "opacity") THEN layer.props["opacity"]
    ELSE IF Has(layer.options, "opacity") THEN layer.options["opacity"]
    ELSE 95

\* props.label || ''
LabelOf(layer) == IF Has(layer.props, "label") THEN layer.props["label"] ELSE <<>>

\* props.labelSize || 10
SizeOf(layer) ==
    IF Has(layer.props, "labelSize") /\ layer.props["labelSize"] # 0
    THEN layer.props["labelSize"] ELSE 10

\* lines 375-391
attach(layer) ==
    LET styled == IF layer.setStyle
                  THEN [layer EXCEPT !.style = [color |-> ColorOf(layer),
                                                opacity |-> OpacityOf(layer)]]
                  ELSE layer
    IN  IF LabelOf(layer) # <<>>
        THEN [styled EXCEPT !.tooltip =
                 [label |-> LabelOf(layer), size |-> SizeOf(layer),
                  className |-> IF IsJobLabel(layer.props) THEN "job-label" ELSE ""]]
        ELSE styled

\* the layer folium.GeoJson makes of a hull feature, lines 199-209
HullLayer(f) ==
    [props |-> [k \in {"label", "color", "labelSize", "isJobLabel", "opacity"} |-> f[k]],
     options |-> [k \in {"color", "opacity"} |-> f[k]],
     setStyle |-> TRUE, style |-> <<>>, tooltip |-> <<>>]

\* the layer folium.GeoJson makes of an imported feature, lines 249-258
OverlayLayer(props) ==
    [props |-> props,
     options |-> [k \in {"color", "opacity"} |->
                    IF k = "color"
                    THEN (IF Has(props, "color") THEN props["color"] ELSE "blue")
                    ELSE (IF Has(props, "opacity") THEN props["opacity"] ELSE 95)],
     setStyle |-> TRUE, style |-> <<>>, tooltip |-> <<>>]

\* the layers of the Markups group when the page has loaded: the hull macro
\* (lines 210-220), the import macro (259-269), then line 401
PageLayers(sc) ==
    [i \in 1..Len(sc.hull_features) |-> attach(HullLayer(sc.hull_features[i]))]
    \o [i \in 1..Len(sc.overlay) |-> attach(OverlayLayer(sc.overlay[i]))]

-----------------------------------------------------------------------------
(* The initial state: the Tk window of __main__, lines 461-476 *)

Init ==
    /\ pc = "gui"
    /\ view_var = "MR"
    /\ markup_file = NoFile
    /\ sheet = <<>>
    /\ scene = NoScene
    /\ messages = {}
    /\ layers = <<>>
    /\ group = {}
    /\ onMap = {}
    /\ markupsHidden = FALSE
    /\ points = <<>>
    /\ hull = <<>>

-----------------------------------------------------------------------------
(* The Tk front end *)

\* the sequences over U of length at most n
SeqsUpTo(U, n) == UNION {[1..k -> U] : k \in 0..n}

\* the two radio buttons, lines 467-469
SelectView ==
    /\ pc = "gui"
    /\ \E v \in {"MR", "Utility"} : view_var' = v
    /\ UNCHANGED <<pc, markup_file, sheet, scene, messages,
                   layers, group, onMap, markupsHidden, points, hull>>

\* lines 424-429: the user picks a file out of Files, or cancels the dialog
on_load_markup(Files) ==
    /\ pc = "gui"
    /\ \E f \in Files \cup {[path |-> "", content |-> "ok", features |-> <<>>]} :
           markup_file' = f
    /\ UNCHANGED <<pc, view_var, sheet, scene, messages,
                   layers, group, onMap, markupsHidden, points, hull>>

\* lines 432-443 and 450-453: the dialog is cancelled, or the workbook cannot be
\* read or lacks columns; nothing is generated
on_generate_refused ==
    /\ pc = "gui"
    /\ \E box \in {"", "Read Error", "Missing Columns", "Missing MR cols",
                   "Missing Company cols"} :
           messages' = IF box = "" THEN {} ELSE {box}
    /\ UNCHANGED <<pc, view_var, markup_file, sheet, scene,
                   layers, group, onMap, markupsHidden, points, hull>>

\* lines 432-459: the user picks a workbook whose rows are a sequence over Universe;
\* build_map runs, the page opens in the browser and runs its script.  The model
\* follows the one page generated.
on_generate(Universe, MaxRows) ==
    /\ pc = "gui"
    /\ \E df \in SeqsUpTo(Universe, MaxRows) :
         \E sc \in {build_map(df, view_var, markup_file)} :
         \E loaded \in {PageLayers(sc)} :
         /\ sheet' = df
         /\ scene' = sc
         /\ IF sc.returned
            THEN /\ pc' = "page"
                 /\ messages' = {"Done"} \cup (IF sc.warned THEN {"Markup Error"} ELSE {})
                 /\ layers' = loaded
                 /\ group' = 1..Len(loaded)
                 /\ onMap' = 1..Len(loaded)
            ELSE /\ pc' = "gui"
                 /\ messages' = {"Traceback"}
                 /\ UNCHANGED <<layers, group, onMap>>
    /\ UNCHANGED <<view_var, markup_file, markupsHidden, points, hull>>

-----------------------------------------------------------------------------
(* Workbooks.  Every workbook of the model has the five base columns, two   *)
(* MR_level columns, one MR_cost column, two warning columns and three      *)
(* company columns.                                                         *)

Row(job, node, scid, lat, lon, level, warning, company) ==
    [job_name |-> job, node_type |-> node, scid |-> scid,
     latitude |-> lat, longitude |-> lon, missing |-> {},
     level |-> level, cost |-> <<<<"1", "0", "0">>>>, warning |-> warning, company |-> company]

Blank3 == <<NA, NA, NA>>
Blank2 == <<NA, NA>>
AEP == <<"A", "E", "P">>

\* rows for the record filter: job names with and without the PLA token, node types
\* in three spellings, a bad scid, a missing latitude, excluded companies
PlainRow(job, company) == Row(job, W_pole, <<"1">>, 0, 0, Blank2, Blank2, <<company, NA, NA>>)
FilterRows ==
    { PlainRow(<<"j", "o", "b", "A">>, AEP),
      PlainRow(<<"j", "o", "b", "A", " ", "P", "L", "A">>, <<"A", "T", "&", "T">>),
      PlainRow(<<"j", "o", "b", "A", " ", " ", "p", "l", "a">>, AEP),
      PlainRow(<<"j", "o", "b", "B">>, AEP),
      PlainRow(<<"P", "L", "A", "N", " ", "j", "o", "b", "B">>, <<"C", "h", "a", "r", "t", "e", "r", " ", "C", "o", "m", "m">>),
      PlainRow(<<"j", "o", "b", "C", "-", "P", "L", "A">>, NA),
      PlainRow(<<"j", "o", "b", "B", " ", "C", "o", "p", "y">>, AEP),
      Row(<<"j", "o", "b", "A">>, <<" ", "P", "o", "l", "e", " ">>, <<"2">>, 0, 0, Blank2, Blank2, Blank3),
      Row(<<"j", "o", "b", "B">>, <<"P", "O", "L", "E">>, <<"3">>, 0, 0, Blank2, Blank2, Blank3),
      Row(<<"j", "o", "b", "B">>, W_pole, <<"1", "2", "a">>, 0, 0, Blank2, Blank2, Blank3),
      [PlainRow(<<"j", "o", "b", "B">>, AEP) EXCEPT !.missing = {"latitude"}] }

\* rows for the classifier: eight unknown companies (more than the palette holds) met
\* in an order that is not the sorted one, repeated and variant spellings, blank
\* cells, the text nan; MR levels in the first or the second column, keys and
\* non-keys of the style table, blank and filled warning cells
ClassRow(level, warning, company) == Row(<<"J">>, W_pole, <<"1">>, 0, 0, level, warning, company)
ClassifyRows ==
    { ClassRow(<<<<"N", "o", " ", "M", "R">>, NA>>, Blank2, <<<<"h">>, <<"g">>, <<"f">>>>),
      ClassRow(<<NA, <<"C", "o", "m", "p", "l", "e", "x", " ", "P", "o", "w", "e", "r", " ", "M", "R">>>>, <<<<"w", "1">>, NA>>, <<<<"e">>, <<"d">>, <<"c">>>>),
      ClassRow(<<<<" ">>, <<"D", "e", "f", "e", "r", "r", "e", "d">>>>, <<<<>>, <<" ">>>>, <<<<"b">>, NA, NA>>),
      ClassRow(<<<<" ", "N", "o", " ", "M", "R">>, NA>>, <<<<"w", "1">>, <<"w", "2">>>>, <<AEP, AEP, NA>>),
      ClassRow(Blank2, Blank2, <<<<"M", "a", "g", "i", "c", " ", "V", "a", "l", "l", "e", "y", " ", "E", "l", "e", "c", " ", "C", "o", "o", "p">>, <<"m", "a", "g", "i", "c", " ", "v", "a", "l", "l", "e", "y", " ", "e", "l", "e", "c", "t", "r", "i", "c", " ", "c", "o", "o", "p", " ">>, NA>>),
      ClassRow(<<<<"n", "o", " ", "m", "r">>, NA>>, Blank2, <<NA, <<>>, <<" ">>>>),
      ClassRow(<<<<"C", "o", "m", "m", " ", "M", "R">>, <<"N", "o", " ", "M", "R">>>>, <<NA, <<"w", "2">>>>, <<<<"n", "a", "n">>, <<" ", "a">>, NA>>),
      ClassRow(<<<<"C", "o", "m", "m", " ", "M", "R">>, <<"N", "o", " ", "M", "R">>>>, Blank2, <<NA, NA, <<" ", "A", "E", "P", " ">>>>) }

\* rows for hulls and overlays: job J1 at four places, three of them on a line, and
\* job J2 at one place
SiteRow(job, lon, lat) == Row(job, W_pole, <<"7">>, lat, lon, <<<<"N", "o", " ", "M", "R">>, NA>>, Blank2, <<AEP, NA, NA>>)
SceneRows ==
    { SiteRow(<<"J", "1">>, 0, 0), SiteRow(<<"J", "1">>, 1, 0), SiteRow(<<"J", "1">>, 2, 0),
      SiteRow(<<"J", "1">>, 0, 1), SiteRow(<<"J", "2">>, 1, 1) }

\* markup files: a feature collection of two features (one with all properties, one
\* with none), and the three ways of failing
MarkupFiles ==
    { [path |-> "file", content |-> "ok",
       features |-> << [k \in {"color", "opacity", "label"} |->
                          IF k = "color" THEN "green" ELSE IF k = "opacity" THEN 40
                          ELSE <<"n", "o", "t", "e">>],
                       [k \in {} |-> 0] >>],
      [path |-> "file", content |-> "unreadable", features |-> <<>>],
      [path |-> "file", content |-> "malformed", features |-> <<>>],
      [path |-> "file", content |-> "invalid", features |-> <<>>] }

MaxFilterRows == 3
MaxClassifyRows == 3
MaxSceneRows == 3

GenerateFiltered == on_generate(FilterRows, MaxFilterRows)
GenerateClassified == on_generate(ClassifyRows, MaxClassifyRows)
GenerateScene == on_generate(SceneRows, MaxSceneRows)
LoadMarkup == on_load_markup(MarkupFiles)

NextFilter == SelectView \/ GenerateFiltered
SpecFilter == Init /\ [][NextFilter]_vars

NextClassify == SelectView \/ GenerateClassified
SpecClassify == Init /\ [][NextClassify]_vars

NextScene == SelectView \/ LoadMarkup \/ on_generate_refused \/ GenerateScene
SpecScene == Init /\ [][NextScene]_vars

-----------------------------------------------------------------------------
(* The page script: actions *)

\* what prompt() returns when the dialog is cancelled: as a colour, as text
Null == "<null>"
NullText == <<"<null>">>

NaN == [nan |-> TRUE, v |-> 0]

RECURSIVE DigitsValue(_, _, _)
\* the value of the longest run of digits of s that starts at i, after acc
DigitsValue(s, i, acc) ==
    IF i > Len(s) \/ ~IsDigit(s[i]) THEN acc
    ELSE DigitsValue(s, i + 1, 10 * acc + (Ord(s[i]) - 48))

\* parseInt(input), and parseFloat(input) for answers without fraction or exponent:
\* leading whitespace, an optional sign, then digits; NaN without a digit there and
\* for null
ParseNumber(input) ==
    IF input = NullText THEN NaN
    ELSE LET lead  == {i \in 1..Len(input) : \A j \in 1..i : IsSpace(input[j])}
             start == Cardinality(lead) + 1
             signed == start <= Len(input) /\ input[start] \in {"+", "-"}
             first == IF signed THEN start + 1 ELSE start
         IN  IF first > Len(input) \/ ~IsDigit(input[first]) THEN NaN
             ELSE [nan |-> FALSE,
                   v |-> IF signed /\ input[start] = "-"
                         THEN 0 - DigitsValue(input, first, 0)
                         ELSE DigitsValue(input, first, 0)]

Min(a, b) == IF a < b THEN a ELSE b
Max(a, b) == IF a > b THEN a ELSE b

\* lines 341-369: the layer after promptEdit, for the four prompt answers
promptEdit(layer, answers) ==
    LET props == layer.props
        col0 == ColorOf(layer)
        col == IF answers.color # Null /\ answers.color # "" THEN answers.color ELSE col0
        label == IF answers.label # NullText THEN answers.label ELSE LabelOf(layer)
        n == ParseNumber(answers.size)
        size == IF ~n.nan /\ n.v # 0 THEN n.v ELSE SizeOf(layer)
        o == ParseNumber(answers.opacity)
        opacity == IF ~o.nan THEN Max(0, Min(100, o.v)) ELSE OpacityOf(layer)
        styled == IF layer.setStyle
                  THEN [layer EXCEPT !.style = [color |-> col, opacity |-> opacity]]
                  ELSE layer
        tipped == [styled EXCEPT !.tooltip =
                     IF label # <<>>
                     THEN [label |-> label, size |-> size,
                           className |-> IF IsJobLabel(props) THEN "job-label" ELSE ""]
                     ELSE <<>>]
    IN  [tipped EXCEPT !.props =
            Put(Put(Put(Put(props, "color", col), "label", label),
                    "labelSize", size), "opacity", opacity)]

\* lines 286-299, had the job hulls not been skipped
toggleMarkupsAll ==
    /\ pc = "page"
    /\ markupsHidden' = ~markupsHidden
    /\ onMap' = IF markupsHidden' THEN onMap \ group ELSE onMap \cup group
    /\ UNCHANGED <<pc, view_var, markup_file, sheet, scene, messages,
                   layers, group, points, hull>>

\* lines 286-299 and the click handler of lines 334-337
toggleMarkups ==
    /\ pc = "page"
    /\ markupsHidden' = ~markupsHidden
    /\ LET toggled == {id \in group : ~IsJobLabel(layers[id].props)}
       IN  onMap' = IF markupsHidden' THEN onMap \ toggled ELSE onMap \cup toggled
    /\ UNCHANGED <<pc, view_var, markup_file, sheet, scene, messages,
                   layers, group, points, hull>>

\* the answers the user gives to the four prompts of one edit: all four cancelled; a
\* palette colour, a label, a size and an opacity; a colour outside the palette, an
\* empty label, size 0 and an opacity above 100; an empty colour, the label
\* cancelled, a size that is no number and a negative opacity
Answers ==
    { [color |-> Null, label |-> NullText, size |-> NullText, opacity |-> NullText],
      [color |-> "green", label |-> <<"L">>, size |-> <<"1", "2">>, opacity |-> <<"5", "0">>],
      [color |-> "pink", label |-> <<>>, size |-> <<"0">>, opacity |-> <<"1", "5", "0">>],
      [color |-> "", label |-> NullText, size |-> <<"a", "b", "c">>, opacity |-> <<" ", "-", "5">>] }

\* lines 376 and 341-373: a right click on a displayed layer of the group
contextmenu ==
    /\ pc = "page"
    /\ \E id \in onMap \cap group, a \in Answers :
          layers' = [layers EXCEPT ![id] = promptEdit(layers[id], a)]
    /\ UNCHANGED <<pc, view_var, markup_file, sheet, scene, messages,
                   group, onMap, markupsHidden, points, hull>>

\* the layers the draw toolbar creates: a path with the toolbar's stroke options, and
\* a marker, which has neither a colour option nor setStyle
DrawnShapes ==
    { [props |-> <<>>, options |-> [k \in {"color", "opacity"} |->
                                       IF k = "color" THEN "#3388ff" ELSE 50],
       setStyle |-> TRUE, style |-> <<>>, tooltip |-> <<>>],
      [props |-> <<>>, options |-> <<>>,
       setStyle |-> FALSE, style |-> <<>>, tooltip |-> <<>>] }

MaxDrawn == 1

\* lines 404-408, with lines 370-372 and the layeradd handler of line 402: the new
\* layer is edited, joins the group, which is on the map, and is attached
draw_created ==
    /\ pc = "page"
    /\ Len(layers) < Len(PageLayers(scene)) + MaxDrawn
    /\ \E shape \in DrawnShapes, a \in Answers :
          layers' = Append(layers, attach(promptEdit(shape, a)))
    /\ group' = group \cup {Len(layers) + 1}
    /\ onMap' = onMap \cup {Len(layers) + 1}
    /\ UNCHANGED <<pc, view_var, markup_file, sheet, scene, messages,
                   markupsHidden, points, hull>>

\* the pages the model follows: a workbook with a job of three poles or of two, and
\* no markup file, a file with one note, or a file exported from an earlier page,
\* whose feature is a job hull
NoteFile ==
    [path |-> "file", content |-> "ok",
     features |-> << [k \in {"color", "opacity", "label"} |->
                        IF k = "color" THEN "red" ELSE IF k = "opacity" THEN 40
                        ELSE <<"n", "o", "t", "e">>] >>]

ExportedFile ==
    [path |-> "file", content |-> "ok",
     features |-> << [k \in {"color", "opacity", "label", "labelSize", "isJobLabel"} |->
                        IF k = "color" THEN "black" ELSE IF k = "opacity" THEN 95
                        ELSE IF k = "label" THEN <<"J", "0">>
                        ELSE IF k = "labelSize" THEN 10 ELSE TRUE] >>]

PageSheets ==
    { <<SiteRow(<<"J", "1">>, 0, 0), SiteRow(<<"J", "1">>, 1, 0), SiteRow(<<"J", "1">>, 0, 1)>>,
      <<SiteRow(<<"J", "1">>, 0, 0), SiteRow(<<"J", "1">>, 1, 0)>> }

PageFiles == {NoFile, NoteFile, ExportedFile}

\* the state on_generate leaves for such a workbook and markup file
InitPage ==
    /\ pc = "page"
    /\ view_var = "MR"
    /\ markup_file \in PageFiles
    /\ sheet \in PageSheets
    /\ scene = build_map(sheet, view_var, markup_file)
    /\ messages = {"Done"}
    /\ layers = PageLayers(scene)
    /\ group = 1..Len(layers)
    /\ onMap = 1..Len(layers)
    /\ markupsHidden = FALSE
    /\ points = <<>>
    /\ hull = <<>>

NextPage == toggleMarkups \/ contextmenu \/ draw_created
SpecPage == InitPage /\ [][NextPage]_vars

\* the layers of the group that are not job hulls
NonHull == {id \in group : ~IsJobLabel(layers[id].props)}

\* C9: whatever the user toggles, edits or draws, every job hull (isJobLabel true)
\* stays displayed, and a toggle that hides the markups leaves no other layer of the
\* Markups group displayed
C9_HullsStayShown ==
    /\ [](pc = "page" =>
            \A id \in 1..Len(layers) : IsJobLabel(layers[id].props) => id \in onMap)
    /\ [][(pc = "page" /\ ~markupsHidden /\ markupsHidden')
             => ({id \in group' : ~IsJobLabel(layers'[id].props)} \cap onMap' = {})]_vars

\* markups are hidden on a page with a job hull, an imported note and a drawn
\* shape, after the hull was edited
C9_Witness ==
    /\ pc = "page"
    /\ markupsHidden
    /\ \E id \in onMap : IsJobLabel(layers[id].props) /\ layers[id].props["color"] = "green"
    /\ Len(layers) > Len(PageLayers(scene))
    /\ Cardinality(NonHull) >= 2
    /\ NonHull \cap onMap = {}

\* C11: every edit (a right click on a layer, or the edit a newly drawn shape gets)
\* leaves the colour, label, label size and opacity on the properties of the layer
\* it edited, and the colour it leaves there is one of MARKUP_COLORS
C11_EditWritesPaletteColour ==
    [][pc = "page" =>
         \A id \in 1..Len(layers') :
            (id > Len(layers) \/ layers'[id] # layers[id]) =>
               /\ \A k \in {"color", "label", "labelSize", "opacity"} :
                      Has(layers'[id].props, k)
               /\ layers'[id].props["color"] \in Range(MARKUP_COLORS)]_vars

-----------------------------------------------------------------------------
(* The record filter: C5, C7, C10 *)

\* the rows of df that satisfy keep, with their multiplicity and order
Kept(df, keep(_)) == SelectIdx(df, {i \in 1..Len(df) : keep(df[i])}, 1)

\* some row of df is a PLA variant of the base job name of r
HasPlaVariant(df, r) ==
    \E j \in 1..Len(df) :
        /\ IsPla(df[j].job_name)
        /\ notna(r.job_name)
        /\ base_job(df[j].job_name) = base_job(r.job_name)

\* C5: after the PLA step, in Utility mode a base job name with a PLA variant keeps
\* its PLA rows only and a base job name without one keeps all its rows; in MR mode
\* no retained row's job name holds the PLA token
C5_PlaStep ==
    pc = "page" =>
        LET before == scene.trace.scid
            after  == scene.trace.pla
            stays(r) == IsPla(r.job_name) \/ ~HasPlaVariant(before, r)
        IN  IF view_var = "Utility"
            THEN after = Kept(before, stays)
            ELSE /\ \A i \in 1..Len(after) : ~IsPla(after[i].job_name)
                 /\ Range(after) \subseteq Range(before)

\* Utility mode: a PLA variant displaced its plain sibling, another job kept its rows
C5_Witness ==
    /\ pc = "page"
    /\ view_var = "Utility"
    /\ \E i \in 1..Len(scene.trace.scid) :
          /\ ~IsPla(scene.trace.scid[i].job_name)
          /\ HasPlaVariant(scene.trace.scid, scene.trace.scid[i])
          /\ scene.trace.scid[i] \notin Range(scene.trace.pla)
    /\ \E i \in 1..Len(scene.trace.pla) : ~IsPla(scene.trace.pla[i].job_name)
    /\ \E i \in 1..Len(scene.trace.pla) : IsPla(scene.trace.pla[i].job_name)

\* C7: filtering the filtered rows again, in the same view mode, returns them unchanged
C7_FilterIdempotent ==
    pc = "page" => Filter(scene.rows, view_var) = scene.rows

\* Utility mode: a PLA variant displaced its plain sibling and was then itself
\* removed by the AT&T/Charter exclusion, and some other row survived
C7_Witness ==
    /\ pc = "page"
    /\ view_var = "Utility"
    /\ scene.rows # <<>>
    /\ \E i \in 1..Len(scene.trace.pla) :
          /\ IsPla(scene.trace.pla[i].job_name)
          /\ Excluded(scene.trace.pla[i])
          /\ \E j \in 1..Len(scene.trace.scid) :
                /\ ~IsPla(scene.trace.scid[j].job_name)
                /\ scene.trace.scid[j].job_name = base_job(scene.trace.pla[i].job_name)

\* C10: the node-type rule keeps exactly the rows whose node type, trimmed and in
\* lower case, is "pole"
C10_NodeTypeTrimmed ==
    pc = "page" =>
        LET trimmedPole(r) == Lower(Strip(Str(r.node_type))) = W_pole
        IN  scene.trace.node_type = Kept(scene.trace.copy, trimmedPole)

-----------------------------------------------------------------------------
(* The classifier: C3, C4, C6 *)

\* the cells of a column group that are neither NaN nor blank, as text, in column order
NonEmpty(cells) ==
    LET kept == SelectIdx(cells, {c \in 1..Len(cells) :
                                     cells[c] # NA /\ Strip(cells[c]) # <<>>}, 1)
    IN  kept

\* the distinct canonical company names of a row
CompanyNames(r) == {canon(v) : v \in Range(NonEmpty(r.company))}

\* C3: in Utility mode a row with more than one distinct canonical company name gets
\* the square marker in the multi-company colour, a row with exactly one gets a
\* circle in that company's colour of the table, a row with none gets the glyph
C3_DistinctCompanies ==
    (pc = "page" /\ view_var = "Utility") =>
        /\ Len(scene.markers) = Len(scene.rows)
        /\ \A i \in 1..Len(scene.rows) :
              LET names == CompanyNames(scene.rows[i])
                  mk    == scene.markers[i]
              IN  IF Cardinality(names) > 1
                  THEN mk.kind = "RegularPolygonMarker" /\ mk.color = MULTI_COMP_COLOR
                  ELSE IF Cardinality(names) = 1
                  THEN /\ mk.kind = "CircleMarker"
                       /\ \E e \in Range(scene.comp_color) :
                             e[1] \in names /\ mk.color = e[2]
                  ELSE mk.kind = "DivIcon"

\* the category the MR rules give a row: "Warning", <<"StyledLevel", level>> or
\* "MissingLevel"
MRCategory(r) ==
    LET level == IF NonEmpty(r.level) = <<>> THEN <<>> ELSE NonEmpty(r.level)[1]
    IN  IF NonEmpty(r.warning) # <<>> THEN <<"Warning">>
        ELSE IF \E e \in Range(STYLE_COLORS) : e[1] = level
        THEN <<"StyledLevel", level>>
        ELSE <<"MissingLevel">>

\* the colour of a category
CategoryColor(cat) ==
    IF cat = <<"Warning">> THEN WARNING_COLOR
    ELSE IF cat = <<"MissingLevel">> THEN MISSING_COLOR
    ELSE (CHOOSE e \in Range(STYLE_COLORS) : e[1] = cat[2])[2]

\* C4: in MR mode every surviving row has exactly one marker; a row with a non-empty
\* warning cell is a Warning in the warning colour whatever its level; otherwise its
\* level is the first non-empty MR-level cell and it is StyledLevel(level) in the
\* style-table colour if the level is a key of the table, else MissingLevel in the
\* missing colour; the colour depends on the category alone
C4_MRCategory ==
    (pc = "page" /\ view_var = "MR") =>
        /\ Len(scene.markers) = Len(scene.rows)
        /\ \A i \in 1..Len(scene.rows) :
              LET cat == MRCategory(scene.rows[i])
                  mk  == scene.markers[i]
              IN  /\ mk.color = CategoryColor(cat)
                  /\ mk.kind = IF cat = <<"Warning">> THEN "RegularPolygonMarker"
                               ELSE "CircleMarker"
                  /\ cat[1] = "StyledLevel" => mk.tooltip.lvl = cat[2]
        /\ \A i, j \in 1..Len(scene.rows) :
              MRCategory(scene.rows[i]) = MRCategory(scene.rows[j])
                  => scene.markers[i].color = scene.markers[j].color

\* MR mode: one page shows a Warning whose level is a style key, a level taken from
\* the second column, a level that is no key, and a row with no level
C4_Witness ==
    /\ pc = "page"
    /\ view_var = "MR"
    /\ \E i \in 1..Len(scene.rows) :
          /\ NonEmpty(scene.rows[i].warning) # <<>>
          /\ \E e \in Range(STYLE_COLORS) : e[1] = scene.markers[i].tooltip.lvl
          /\ scene.markers[i].color = WARNING_COLOR
    /\ \E i \in 1..Len(scene.rows) :
          /\ ~Filled(scene.rows[i].level[1])
          /\ MRCategory(scene.rows[i])[1] = "StyledLevel"
    /\ \E i \in 1..Len(scene.rows) :
          /\ NonEmpty(scene.rows[i].level) # <<>>
          /\ MRCategory(scene.rows[i]) = <<"MissingLevel">>

\* the canonical names the colour table is built from, in the order they are first
\* met: rows in row order, company columns in column order
SeenNames(df) == DedupInOrder(comps(df))

\* the names of a list that are not known companies, in the order of the list
Unknown(names) ==
    SelectIdx(names, {i \in 1..Len(names) : names[i] \notin Keys(KnownCompanyColors)}, 1)

\* the colour table that gives the k-th name of unknownInOrder the k-th palette
\* colour, cyclically, after the fixed colours of the known companies
TableFor(unknownInOrder) ==
    KnownCompanyColors
    \o [k \in 1..Len(unknownInOrder) |->
           <<unknownInOrder[k], PALETTE[((k - 1) % Len(PALETTE)) + 1]>>]

\* C6 as stated: unknown companies get the palette colours in first-seen order
C6_FirstSeenOrder ==
    (pc = "page" /\ view_var = "Utility") =>
        scene.comp_color = TableFor(Unknown(SeenNames(scene.rows)))

\* C6, amended: the known companies keep their fixed colours and the unknown
\* canonical names get the palette colours, cyclically, in ascending order of the
\* names (Python's string order), whatever the order they are met in: reversing the
\* rows leaves the table unchanged
C6_SortedOrder ==
    (pc = "page" /\ view_var = "Utility") =>
        /\ scene.comp_color = TableFor(Unknown(SortedStrs(Range(SeenNames(scene.rows)))))
        /\ comp_color(Reverse(scene.rows)) = scene.comp_color
        /\ \A e \in Range(KnownCompanyColors) : e \in Range(scene.comp_color)

\* Utility mode: more unknown companies than palette colours, first met in an order
\* that is not the sorted one
C6_Witness ==
    /\ pc = "page"
    /\ view_var = "Utility"
    /\ Len(Unknown(SeenNames(scene.rows))) > Len(PALETTE)
    /\ SeenNames(scene.rows) # SortedStrs(Range(SeenNames(scene.rows)))
    /\ SeenNames(Reverse(scene.rows)) # SeenNames(scene.rows)

-----------------------------------------------------------------------------
(* Job hulls and the markup file: C1, C8 *)

\* the distinct (longitude, latitude) pairs of the surviving rows of a job
JobCoords(job) == Range(JobPts(scene.rows, job))

Collinear(S) == \A a, b, c \in S : cross(a, b, c) = 0

\* C1: a hull feature is emitted for a job only if its rows have at least 3 distinct
\* coordinates and convex_hull returns at least 3 points for them; a job with fewer
\* than 3 distinct coordinates, or with all its points on one line, emits none; every
\* emitted ring is closed around at least 3 distinct vertices
C1_HullOnlyForPolygons ==
    pc = "page" =>
        /\ \A f \in Range(scene.hull_features) :
              LET ring == f.coordinates IN
              /\ Cardinality(JobCoords(f.label)) >= 3
              /\ Len(convex_hull(JobPts(scene.rows, f.label))) >= 3
              /\ ring[1] = ring[Len(ring)]
              /\ Cardinality(Range(ring)) >= 3
        /\ \A i \in 1..Len(scene.rows) :
              LET job == scene.rows[i].job_name IN
              (Cardinality(JobCoords(job)) < 3 \/ Collinear(JobCoords(job)))
                  => \A f \in Range(scene.hull_features) : f.label # job

\* a markup path was chosen and the file cannot be read or parsed
MarkupFails == markup_file.path = "file" /\ markup_file.content # "ok"

\* C8: when the chosen markup file cannot be read or parsed, the failure is reported
\* in a message box, build_map still returns and the page opens, no overlay feature
\* is added, and the markers and job hulls on the map are those of a run without a
\* markup path
C8_OverlayFailureIsolated ==
    (MarkupFails /\ (pc = "page" \/ "Traceback" \in messages)) =>
        /\ pc = "page"
        /\ scene.returned
        /\ messages = {"Done", "Markup Error"}
        /\ scene.overlay = <<>>
        /\ Len(scene.markers) = Len(scene.rows)
        /\ scene.markers = build_map(sheet, view_var, NoFile).markers
        /\ scene.hull_features = build_map(sheet, view_var, NoFile).hull_features
        /\ Len(layers) = Len(scene.hull_features)

\* a page generated with a failing markup file that shows three markers and a hull
C8_Witness ==
    /\ pc = "page"
    /\ MarkupFails
    /\ Len(scene.markers) = 3
    /\ Len(scene.hull_features) = 1
    /\ Cardinality(Range(scene.hull_features[1].coordinates)) = 3

-----------------------------------------------------------------------------
(* Direct calls of convex_hull on points of an integer grid *)

MaxCoord == 2
MaxPts == 4
Grid == (0..MaxCoord) \X (0..MaxCoord)

AddPoint ==
    /\ pc = "gui"
    /\ Len(points) < MaxPts
    /\ \E p \in Grid : points' = Append(points, p)
    /\ UNCHANGED <<pc, view_var, markup_file, sheet, scene, messages,
                   layers, group, onMap, markupsHidden, hull>>

CallConvexHull ==
    /\ pc = "gui"
    /\ hull' = convex_hull(points)
    /\ pc' = "hull"
    /\ UNCHANGED <<view_var, markup_file, sheet, scene, messages,
                   layers, group, onMap, markupsHidden, points>>

NextHull == AddPoint \/ CallConvexHull

SpecHull == Init /\ [][NextHull]_vars

\* p lies on or inside the polygon whose vertices are h, in counter-clockwise order
\* (a single point when h has one vertex, a segment when it has two)
OnOrInside(p, h) ==
    IF Len(h) = 0 THEN FALSE
    ELSE IF Len(h) = 1 THEN p = h[1]
    ELSE IF Len(h) = 2
         THEN /\ cross(h[1], h[2], p) = 0
              /\ (p[1] - h[1][1]) * (p[1] - h[2][1]) <= 0
              /\ (p[2] - h[1][2]) * (p[2] - h[2][2]) <= 0
    ELSE \A i \in 1..Len(h) : cross(h[i], h[(i % Len(h)) + 1], p) >= 0

StrictlyInside(p, h) ==
    /\ Len(h) >= 3
    /\ \A i \in 1..Len(h) : cross(h[i], h[(i % Len(h)) + 1], p) > 0

\* s with the elements at i and i+1 exchanged
SwapAdjacent(s, i) == [s EXCEPT ![i] = s[i + 1], ![i + 1] = s[i]]

\* C2: convex_hull returns only input points, every input point lies on or inside
\* the returned polygon, the result does not change when the input is permuted or a
\* point of it is repeated, and with fewer than 3 distinct points the result is the
\* deduplicated input.  Every point sequence is a reachable argument, so invariance
\* under exchanging two neighbours is invariance under every permutation, and
\* agreeing with the result on the input without its repeats is invariance under
\* adding repeats anywhere.
C2_HullContract ==
    pc = "hull" =>
        /\ Range(hull) \subseteq Range(points)
        /\ \A i \in 1..Len(points) : OnOrInside(points[i], hull)
        /\ \A i \in 1..(Len(points) - 1) : convex_hull(SwapAdjacent(points, i)) = hull
        /\ convex_hull(DedupInOrder(points)) = hull
        /\ Cardinality(Range(points)) < 3 =>
              /\ Range(hull) = Range(points)
              /\ Len(hull) = Cardinality(Range(points))

\* four distinct points out of order, one strictly inside the triangle of the others
C2_Witness ==
    /\ pc = "hull"
    /\ Len(points) = 4
    /\ Len(hull) = 3
    /\ points # SortedPts(Range(points))
    /\ \E i \in 1..Len(points) : StrictlyInside(points[i], hull)

=============================================================================
